---- MODULE Spec2Model ----
(***************************************************************************)
(* StudyPal (studypal.py): a command-line flashcard manager that schedules *)
(* reviews with an SM-2 variant.  The module models the Card/Deck data     *)
(* model, the scheduler sm2_schedule and the commands add, edit, delete,   *)
(* practice and stats, and states the specification's claims about them.   *)
(*                                                                         *)
(* Representation                                                          *)
(*  - a str is a sequence of one-character strings;                        *)
(*  - an Optional value is <<>> (None) or <<v>>;                           *)
(*  - a datetime is its proleptic Gregorian ordinal (date.toordinal()),    *)
(*    the time of day is dropped because every use in the program goes     *)
(*    through .date() or strftime("%Y-%m-%d");                             *)
(*  - ease is kept in hundredths (2.5 is 250).  Every increment of the     *)
(*    program is a whole number of hundredths; the binary float the        *)
(*    program holds differs from it by less than 1e-12, which matters      *)
(*    only where interval * ease falls on a half: there the float product  *)
(*    lands on either side and round() goes down or up.  That outcome is   *)
(*    the parameter half_up of sm2_schedule.                               *)
(***************************************************************************)
EXTENDS Integers, Sequences, FiniteSets, TLC

\* ------------------------------------------------------------------ bounds
MaxInterval == 24
MaxRepetitions == 4
MaxEaseSteps == 14
MaxCards == 2
MaxNextId == 3
MaxTicks == 1

\* --------------------------------------------------------------- constants
MIN_EASE == 130
START_EASE == 250

\* ------------------------------------------------------------ str helpers
None == <<>>

Some(v) == <<v>>

Max(a, b) == IF a >= b THEN a ELSE b

Min(a, b) == IF a <= b THEN a ELSE b

Digits == <<"0", "1", "2", "3", "4", "5", "6", "7", "8", "9">>

IsDigit(c) == \E i \in 1..10 : Digits[i] = c

DigitVal(c) == (CHOOSE i \in 1..10 : Digits[i] = c) - 1

DigitChar(n) == Digits[n + 1]

IsSpace(c) == c = " "

\* str.strip(): drop leading and trailing whitespace
RECURSIVE lstrip(_)
lstrip(s) == IF s # <<>> /\ IsSpace(Head(s)) THEN lstrip(Tail(s)) ELSE s

RECURSIVE rstrip(_)
rstrip(s) ==
    IF s # <<>> /\ IsSpace(s[Len(s)]) THEN rstrip(SubSeq(s, 1, Len(s) - 1)) ELSE s

strip(s) == rstrip(lstrip(s))

\* ----------------------------------------------------------- date helpers
IsLeap(y) == y % 4 = 0 /\ (y % 100 # 0 \/ y % 400 = 0)

DaysInMonth(y, m) ==
    IF m = 2 THEN (IF IsLeap(y) THEN 29 ELSE 28)
    ELSE IF m \in {4, 6, 9, 11} THEN 30 ELSE 31

DaysBeforeMonthTable == <<0, 31, 59, 90, 120, 151, 181, 212, 243, 273, 304, 334>>

DaysBeforeMonth(y, m) ==
    DaysBeforeMonthTable[m] + (IF m > 2 /\ IsLeap(y) THEN 1 ELSE 0)

DaysBeforeYear(y) ==
    LET p == y - 1 IN p * 365 + (p \div 4) - (p \div 100) + (p \div 400)

\* date(y, m, d).toordinal()
ymd2ord(y, m, d) == DaysBeforeYear(y) + DaysBeforeMonth(y, m) + d

\* date.fromordinal(n) as <<year, month, day>>
ord2ymd(ord) ==
    LET n0   == ord - 1
        n400 == n0 \div 146097
        r400 == n0 % 146097
        n100 == r400 \div 36524
        r100 == r400 % 36524
        n4   == r100 \div 1461
        r4   == r100 % 1461
        n1   == r4 \div 365
        n    == r4 % 365
        year == n400 * 400 + 1 + n100 * 100 + n4 * 4 + n1
    IN  IF n1 = 4 \/ n100 = 4 THEN <<year - 1, 12, 31>>
        ELSE LET m0   == (n + 50) \div 32
                 pre0 == DaysBeforeMonth(year, m0)
                 month == IF pre0 > n THEN m0 - 1 ELSE m0
                 pre   == DaysBeforeMonth(year, month)
             IN  <<year, month, n - pre + 1>>

Pad2(n) == <<DigitChar(n \div 10), DigitChar(n % 10)>>

Pad4(n) ==
    <<DigitChar(n \div 1000), DigitChar((n \div 100) % 10),
      DigitChar((n \div 10) % 10), DigitChar(n % 10)>>

\* datetime.strftime("%Y-%m-%d")
strftime(ord) ==
    LET ymd == ord2ymd(ord)
    IN  Pad4(ymd[1]) \o <<"-">> \o Pad2(ymd[2]) \o <<"-">> \o Pad2(ymd[3])

AllDigits(s) == \A i \in 1..Len(s) : IsDigit(s[i])

RECURSIVE NumVal(_)
NumVal(s) == IF s = <<>> THEN 0 ELSE NumVal(SubSeq(s, 1, Len(s) - 1)) * 10 + DigitVal(s[Len(s)])

DashPositions(s) == {i \in 1..Len(s) : s[i] = "-"}

\* the text of a %d field: one or two digits, or a space and a digit
IsDayText(ds) ==
    \/ Len(ds) \in {1, 2} /\ AllDigits(ds)
    \/ Len(ds) = 2 /\ ds[1] = " " /\ IsDigit(ds[2])

DayVal(ds) == IF ds[1] = " " THEN DigitVal(ds[2]) ELSE NumVal(ds)

\* datetime.strptime(s, "%Y-%m-%d"): None stands for ValueError.  %Y takes
\* exactly four digits, %m one or two digits, %d one or two digits or a space
\* and a digit; the fields must form a date of the calendar.
strptime(s) ==
    LET dashes == DashPositions(s)
    IN  IF Cardinality(dashes) # 2 THEN None
        ELSE LET d1 == CHOOSE i \in dashes : \A j \in dashes : i <= j
                 d2 == CHOOSE i \in dashes : \A j \in dashes : i >= j
                 ys == SubSeq(s, 1, d1 - 1)
                 ms == SubSeq(s, d1 + 1, d2 - 1)
                 ds == SubSeq(s, d2 + 1, Len(s))
             IN  IF ~(Len(ys) = 4 /\ Len(ms) \in {1, 2}
                      /\ AllDigits(ys) /\ AllDigits(ms) /\ IsDayText(ds))
                 THEN None
                 ELSE LET y == NumVal(ys)
                          m == NumVal(ms)
                          d == DayVal(ds)
                      IN  IF y >= 1 /\ m \in 1..12 /\ d >= 1
                             /\ d <= DaysInMonth(y, m)
                          THEN Some(ymd2ord(y, m, d))
                          ELSE None

\* ------------------------------------------------------------------- state
VARIABLES
    card,       \* scheduler harness: the Card handed to sm2_schedule
    quality,    \* scheduler harness: quality of the last call
    today,      \* scheduler harness: today of the last call
    half_up,    \* scheduler harness: float outcome of the last call on a half
    called,     \* scheduler harness: sm2_schedule has been called
    before,     \* scheduler harness: the Card as it was before the last call
    deck,       \* the Deck in memory of the running (or last) process
    disk,       \* content of DECK_PATH
    now,        \* the clock, NOW()
    outcome,    \* what the last command printed
    last,       \* the last command line: [cmd, id, question, answer]
    issued,     \* history: the ids given to cards so far, in order
    pc,         \* where the running process stands; "idle" when none runs
    task,       \* what the running process saves for
    torn,       \* DECK_PATH holds an emptied or partly written text
    old_disk,   \* history: content of DECK_PATH when the process started
    queue,      \* practice: positions in deck.cards still to present
    s_today,    \* practice: today, read once when the session starts
    correctish, \* practice: grades >= 3 so far
    total,      \* practice: len(due) at the start
    graded,     \* history: the grades of this session, [pos, id, grade]
    deck0,      \* history: the deck as the session loaded it
    report,     \* practice: the closing line, None or <<[acc10, reviewed]>>
    reviews,    \* history: <<id, day>> of every grade, day of session start
    regraded,   \* history: some card was graded twice for one day
    due_out,    \* stats: the count printed as "Due today"
    buckets     \* stats: the histogram printed, offsets 0..7

vars ==
    <<card, quality, today, half_up, called, before,
      deck, disk, now, outcome, last, issued,
      pc, task, torn, old_disk,
      queue, s_today, correctish, total, graded, deck0, report,
      reviews, regraded, due_out, buckets>>

sm2vars == <<card, quality, today, half_up, called, before>>

deckvars == <<deck, disk, now, outcome, last, issued>>

iovars == <<pc, task, torn, old_disk>>

sessvars ==
    <<queue, s_today, correctish, total, graded, deck0, report,
      reviews, regraded>>

statvars == <<due_out, buckets>>

runvars == <<iovars, sessvars, statvars>>

\* -------------------------------------------------------------------- Card
\* Card(id, question, answer) with the dataclass defaults; the defaults of
\* due and created are evaluated when the class is defined, at process start.
Card(id, question, answer, start) ==
    [id |-> id, question |-> question, answer |-> answer,
     repetitions |-> 0, interval |-> 0, ease |-> START_EASE,
     due |-> strftime(start), created |-> strftime(start),
     last_review |-> None]

\* the ValueError of strptime answers FALSE
is_due_closed(c, day) ==
    LET due_date == strptime(c.due)
    IN  IF due_date = None THEN FALSE ELSE due_date[1] <= day

\* Card.is_due
is_due(c, day) ==
    LET due_date == strptime(c.due)
    IN  IF due_date = None THEN TRUE ELSE due_date[1] <= day

\* --------------------------------------------------------------- scheduler
\* the quality is used as given
clamp_none(q) == q

\* q = max(0, min(5, quality))
clamp(q) == Max(0, Min(5, q))

\* 0.1 - (5 - q) * (0.08 + (5 - q) * 0.02), in hundredths
ease_delta(q) == 10 - (5 - q) * (8 + (5 - q) * 2)

\* the floor applies to the increment instead of the sum
new_ease_unfloored(ease, q) == ease + Max(-MIN_EASE, ease_delta(q))

\* max(1.3, card.ease + delta)
new_ease(ease, q) == Max(MIN_EASE, ease + ease_delta(q))

\* int(round(interval * ease)) with ease in hundredths
pyround(interval, ease, up) ==
    LET n == interval * ease
        f == n \div 100
        r == n % 100
    IN  IF r < 50 THEN f
        ELSE IF r > 50 THEN f + 1
        ELSE IF up THEN f + 1 ELSE f

OnHalf(interval, ease) == (interval * ease) % 100 = 50

\* a lapse is a quality below 2
next_interval_lapse2(c, q, e, up) ==
    IF q < 2 THEN 1
    ELSE IF c.repetitions = 0 THEN 1
    ELSE IF c.repetitions = 1 THEN 6
    ELSE pyround(c.interval, e, up)

\* the second success grows the interval by the ease as the later ones do
next_interval_nostep(c, q, e, up) ==
    IF q < 3 THEN 1
    ELSE IF c.repetitions = 0 THEN 1
    ELSE pyround(c.interval, e, up)

\* the interval grows by the ease the card had before the grade
next_interval_oldease(c, q, e, up) ==
    IF q < 3 THEN 1
    ELSE IF c.repetitions = 0 THEN 1
    ELSE IF c.repetitions = 1 THEN 6
    ELSE pyround(c.interval, c.ease, up)

\* a lapse leaves the card due the same day
next_interval_zero(c, q, e, up) ==
    IF q < 3 THEN 0
    ELSE IF c.repetitions = 0 THEN 1
    ELSE IF c.repetitions = 1 THEN 6
    ELSE pyround(c.interval, e, up)

\* a mature card keeps its interval on a success
next_interval_flat(c, q, e, up) ==
    IF q < 3 THEN 1
    ELSE IF c.repetitions = 0 THEN 1
    ELSE IF c.repetitions = 1 THEN 6
    ELSE c.interval

\* the branch of lines 78-90: the interval of the graded card
next_interval(c, q, e, up) ==
    IF q < 3 THEN 1
    ELSE IF c.repetitions = 0 THEN 1
    ELSE IF c.repetitions = 1 THEN 6
    ELSE pyround(c.interval, e, up)

\* the branch of lines 78-90: the repetitions of the graded card
next_repetitions(c, q) ==
    IF q < 3 THEN 0
    ELSE IF c.repetitions = 0 THEN 1
    ELSE IF c.repetitions = 1 THEN 2
    ELSE c.repetitions + 1

\* the days are added to the day of the month without carrying
next_due_nocarry(day, iv) ==
    LET ymd == ord2ymd(day)
    IN  Pad4(ymd[1]) \o <<"-">> \o Pad2(ymd[2]) \o <<"-">> \o Pad2((ymd[3] + iv) % 100)

\* (today + timedelta(days=card.interval)).strftime(DATE_FMT)
next_due(day, iv) == strftime(day + iv)

sm2_schedule(c, qual, day, up) ==
    LET q  == clamp(qual)
        e  == new_ease(c.ease, q)
        iv == next_interval(c, q, e, up)
        rp == next_repetitions(c, q)
    IN  [c EXCEPT !.ease = e, !.interval = iv, !.repetitions = rp,
                  !.due = next_due(day, iv),
                  !.last_review = Some(strftime(day))]

\* ------------------------------------------------------- scheduler harness
MaxEase == MIN_EASE + 10 * MaxEaseSteps

EaseInputs == {MIN_EASE + 10 * k : k \in 0..MaxEaseSteps}

QualityInputs == -1..6

TodayInputs == {ymd2ord(2023, 12, 30), ymd2ord(2024, 2, 27)}

A == <<"a">>

CardInputs ==
    {[Card(1, A, A, ymd2ord(2023, 12, 30))
        EXCEPT !.repetitions = rp, !.interval = iv, !.ease = e] :
        rp \in 0..MaxRepetitions, iv \in 0..MaxInterval, e \in EaseInputs}

EmptyDeck == [next_id |-> 1, cards |-> <<>>]

NoFile == [exists |-> FALSE, next_id |-> 0, cards |-> <<>>]

Day0 == ymd2ord(2024, 2, 28)

NoCommand == [cmd |-> "none", id |-> 0, question |-> None, answer |-> None]

NoBuckets == [k \in 0..7 |-> 0]

\* no process runs and none has run
RunIdle ==
    /\ pc = "idle"
    /\ task = "none"
    /\ torn = FALSE
    /\ old_disk = NoFile
    /\ queue = <<>>
    /\ s_today = Day0
    /\ correctish = 0
    /\ total = 0
    /\ graded = <<>>
    /\ deck0 = EmptyDeck
    /\ report = None
    /\ reviews = {}
    /\ regraded = FALSE
    /\ due_out = 0
    /\ buckets = NoBuckets

DeckIdle ==
    /\ RunIdle
    /\ deck = EmptyDeck
    /\ disk = NoFile
    /\ now = Day0
    /\ outcome = "none"
    /\ last = NoCommand
    /\ issued = <<>>

InitSM2 ==
    /\ card \in CardInputs
    /\ quality = 0
    /\ today = ymd2ord(2023, 12, 30)
    /\ half_up = FALSE
    /\ called = FALSE
    /\ before = card
    /\ DeckIdle

InBounds(c) ==
    /\ c.interval <= MaxInterval
    /\ c.repetitions <= MaxRepetitions
    /\ c.ease <= MaxEase

Sm2Call ==
    \E q \in QualityInputs, t \in TodayInputs, up \in BOOLEAN :
        /\ up => (clamp(q) >= 3 /\ card.repetitions >= 2
                  /\ OnHalf(card.interval, new_ease(card.ease, clamp(q))))
        /\ InBounds(sm2_schedule(card, q, t, up))
        /\ card' = sm2_schedule(card, q, t, up)
        /\ quality' = q
        /\ today' = t
        /\ half_up' = up
        /\ called' = TRUE
        /\ before' = card
        /\ UNCHANGED <<deckvars, runvars>>

NextSM2 == Sm2Call

SpecSM2 == InitSM2 /\ [][NextSM2]_vars

\* -------------------------------------------------------------------- Deck
\* Deck.load: a fresh Deck when DECK_PATH does not exist, else the saved one
load(file) ==
    IF ~file.exists THEN EmptyDeck
    ELSE [next_id |-> file.next_id, cards |-> file.cards]

\* Deck.save: a full overwrite with next_id and the cards in their order
save(dk) == [exists |-> TRUE, next_id |-> dk.next_id, cards |-> dk.cards]

\* the id of the next card is the number of cards plus one
add_by_count(dk, q, a, start) ==
    [next_id |-> dk.next_id + 1,
     cards |-> Append(dk.cards, Card(Len(dk.cards) + 1, strip(q), strip(a), start))]

\* Deck.add
add(dk, q, a, start) ==
    [next_id |-> dk.next_id + 1,
     cards |-> Append(dk.cards, Card(dk.next_id, strip(q), strip(a), start))]

Ids(dk) == {dk.cards[i].id : i \in 1..Len(dk.cards)}

CardIdsOf(dk) == [i \in 1..Len(dk.cards) |-> dk.cards[i].id]

\* next((c for c in deck.cards if c.id == cid), None), as an index or 0
find(dk, cid) ==
    IF cid \in Ids(dk)
    THEN CHOOSE i \in 1..Len(dk.cards) :
            /\ dk.cards[i].id = cid
            /\ \A j \in 1..(i - 1) : dk.cards[j].id # cid
    ELSE 0

\* truth value of an optional str argument: given and not empty
Truthy(arg) == arg # None /\ arg[1] # <<>>

\* the card is built anew from the edited texts
edit_card_rebuilt(c, question, answer) ==
    Card(c.id,
         IF Truthy(question) THEN question[1] ELSE c.question,
         IF Truthy(answer) THEN answer[1] ELSE c.answer,
         Day0)

\* cmd_edit, lines 179-182
edit_card(c, question, answer) ==
    [c EXCEPT !.question = IF Truthy(question) THEN question[1] ELSE @,
              !.answer = IF Truthy(answer) THEN answer[1] ELSE @]

\* [c for c in deck.cards if c.id != cid]
RECURSIVE without(_, _)
without(cards, cid) ==
    IF cards = <<>> THEN <<>>
    ELSE IF Head(cards).id = cid THEN without(Tail(cards), cid)
    ELSE <<Head(cards)>> \o without(Tail(cards), cid)

\* ---------------------------------------------------------------- commands
\* argument strings: empty, whitespace only, plain, padded
AddTexts == {<<>>, <<" ">>, A, <<" ", "a", " ">>}

\* optional argument strings: not given, empty, whitespace only, plain
EditTexts == {None, Some(<<>>), Some(<<" ">>), Some(A)}

IdInputs == 1..MaxNextId

\* main() with the command add
cmd_add ==
    \E q \in AddTexts, a \in AddTexts :
        LET loaded == load(disk)
            grown  == add(loaded, q, a, now)
        IN  /\ Len(loaded.cards) < MaxCards
            /\ loaded.next_id < MaxNextId
            /\ deck' = grown
            /\ disk' = save(grown)
            /\ outcome' = "added"
            /\ last' = [cmd |-> "add", id |-> grown.cards[Len(grown.cards)].id,
                        question |-> Some(q), answer |-> Some(a)]
            /\ issued' = Append(issued, grown.cards[Len(grown.cards)].id)
            /\ UNCHANGED <<now, sm2vars, runvars>>

\* a missing card is reported as edited and the deck is written
edit_always_saves(loaded, cid, question, answer) ==
    LET i == find(loaded, cid)
        edited == IF i = 0 THEN loaded
                  ELSE [loaded EXCEPT !.cards[i] = edit_card(@, question, answer)]
    IN  [deck |-> edited, disk |-> save(edited), outcome |-> "edited"]

\* cmd_edit: the deck in memory, the file and the message it ends with
edit(loaded, cid, question, answer) ==
    LET i == find(loaded, cid)
    IN  IF i = 0
        THEN [deck |-> loaded, disk |-> disk, outcome |-> "not found"]
        ELSE LET edited ==
                    [loaded EXCEPT !.cards[i] = edit_card(@, question, answer)]
             IN  [deck |-> edited, disk |-> save(edited), outcome |-> "edited"]

\* main() with the command edit
cmd_edit ==
    \E cid \in IdInputs, question \in EditTexts, answer \in EditTexts :
        LET r == edit(load(disk), cid, question, answer)
        IN  /\ deck' = r.deck
            /\ disk' = r.disk
            /\ outcome' = r.outcome
            /\ last' = [cmd |-> "edit", id |-> cid,
                        question |-> question, answer |-> answer]
            /\ UNCHANGED <<now, issued, sm2vars, runvars>>

\* cmd_delete: the deck in memory, the file and the message it ends with
delete(loaded, cid) ==
    LET kept == [loaded EXCEPT !.cards = without(@, cid)]
    IN  IF Len(kept.cards) = Len(loaded.cards)
        THEN [deck |-> kept, disk |-> disk, outcome |-> "not found"]
        ELSE [deck |-> kept, disk |-> save(kept), outcome |-> "deleted"]

\* main() with the command delete
cmd_delete ==
    \E cid \in IdInputs :
        LET r == delete(load(disk), cid)
        IN  /\ deck' = r.deck
            /\ disk' = r.disk
            /\ outcome' = r.outcome
            /\ last' = [cmd |-> "delete", id |-> cid,
                        question |-> None, answer |-> None]
            /\ UNCHANGED <<now, issued, sm2vars, runvars>>

\* a deck the program has saved after two successful reviews of its card
ReviewedDeck ==
    LET c0 == Card(1, A, <<"a", " ", "a">>, Day0 - 7)
        c1 == sm2_schedule(c0, 4, Day0 - 7, FALSE)
        c2 == sm2_schedule(c1, 5, Day0 - 6, FALSE)
    IN  [next_id |-> 2, cards |-> <<c2>>]

Init ==
    /\ \/ /\ disk = NoFile
          /\ issued = <<>>
       \/ /\ disk = save(ReviewedDeck)
          /\ issued = <<1>>
    /\ deck = load(disk)
    /\ RunIdle
    /\ now = Day0
    /\ outcome = "none"
    /\ last = NoCommand
    /\ card = Card(1, A, A, Day0)
    /\ quality = 0
    /\ today = Day0
    /\ half_up = FALSE
    /\ called = FALSE
    /\ before = card

Next == cmd_add \/ cmd_edit \/ cmd_delete

Spec == Init /\ [][Next]_vars

\* ------------------------------------------------- commands, step by step
\* The same commands with Deck.save taken apart: path.write_text opens the
\* file for writing, which empties it, and the text reaches the file when it
\* is written and closed.  pc is "open" before the file is opened, "write"
\* while it is open, "report" when save has returned.

\* the steps of a command that found its card: print, then never save
StepAfterPrintOnly(step) ==
    IF step = "start" THEN "report" ELSE "report"

\* the order of a command: mutate, save (open, write), print
StepAfter(step) ==
    IF step = "start" THEN "open"
    ELSE IF step = "open" THEN "write"
    ELSE "report"

\* the file between open(path, "w") and the write
TornFile == [exists |-> TRUE, next_id |-> 0, cards |-> <<>>]

B == <<"b">>

IoEditTexts == {None, Some(B)}

\* a process starts: nothing printed yet, the file as it finds it
Started ==
    /\ pc = "idle"
    /\ ~torn
    /\ old_disk' = disk
    /\ UNCHANGED <<disk, torn, now>>

StartAdd ==
    LET loaded == load(disk)
        grown  == add(loaded, A, B, now)
    IN  /\ Started
        /\ Len(loaded.cards) < MaxCards
        /\ loaded.next_id < MaxNextId
        /\ deck' = grown
        /\ last' = [cmd |-> "add", id |-> grown.cards[Len(grown.cards)].id,
                    question |-> Some(A), answer |-> Some(B)]
        /\ outcome' = "none"
        /\ pc' = StepAfter("start")
        /\ task' = "added"
        /\ UNCHANGED <<issued, sm2vars, sessvars, statvars>>

StartEdit ==
    \E cid \in IdInputs, question \in IoEditTexts, answer \in IoEditTexts :
        LET r == edit(load(disk), cid, question, answer)
        IN  /\ Started
            /\ deck' = r.deck
            /\ last' = [cmd |-> "edit", id |-> cid,
                        question |-> question, answer |-> answer]
            /\ IF r.outcome = "not found"
               THEN outcome' = r.outcome /\ UNCHANGED <<pc, task>>
               ELSE /\ outcome' = "none"
                    /\ pc' = StepAfter("start")
                    /\ task' = r.outcome
            /\ UNCHANGED <<issued, sm2vars, sessvars, statvars>>

StartDelete ==
    \E cid \in IdInputs :
        LET r == delete(load(disk), cid)
        IN  /\ Started
            /\ deck' = r.deck
            /\ last' = [cmd |-> "delete", id |-> cid,
                        question |-> None, answer |-> None]
            /\ IF r.outcome = "not found"
               THEN outcome' = r.outcome /\ UNCHANGED <<pc, task>>
               ELSE /\ outcome' = "none"
                    /\ pc' = StepAfter("start")
                    /\ task' = r.outcome
            /\ UNCHANGED <<issued, sm2vars, sessvars, statvars>>

\* Deck.save, first half: open(path, "w") empties the file
SaveOpen ==
    /\ pc = "open"
    /\ disk' = TornFile
    /\ torn' = TRUE
    /\ pc' = StepAfter("open")
    /\ UNCHANGED <<deck, now, outcome, last, issued, task, old_disk,
                   sm2vars, sessvars, statvars>>

\* Deck.save, second half: the text is written and the file closed; the
\* history of ids counts an id from the moment it is in the file
SaveWrite ==
    /\ pc = "write"
    /\ disk' = save(deck)
    /\ torn' = FALSE
    /\ pc' = StepAfter("write")
    /\ issued' = IF task = "added" THEN Append(issued, last.id) ELSE issued
    /\ UNCHANGED <<deck, now, outcome, last, task, old_disk,
                   sm2vars, sessvars, statvars>>

\* the print that ends cmd_add, cmd_edit and cmd_delete
Report ==
    /\ pc = "report"
    /\ task \in {"added", "edited", "deleted"}
    /\ outcome' = task
    /\ pc' = "idle"
    /\ UNCHANGED <<deck, disk, now, last, issued, task, torn, old_disk,
                   sm2vars, sessvars, statvars>>

\* the process dies where it stands: killed, power lost, or write_text raised
Crash ==
    /\ pc # "idle"
    /\ pc' = "idle"
    /\ outcome' = "crashed"
    /\ UNCHANGED <<deck, disk, now, last, issued, task, torn, old_disk,
                   sm2vars, sessvars, statvars>>

\* main() on a file that is not JSON: json.loads raises, nothing else happens
LoadFails ==
    /\ pc = "idle"
    /\ torn
    /\ outcome # "load error"
    /\ outcome' = "load error"
    /\ UNCHANGED <<deck, disk, now, last, issued, iovars,
                   sm2vars, sessvars, statvars>>

NextIO ==
    \/ StartAdd
    \/ StartEdit
    \/ StartDelete
    \/ SaveOpen
    \/ SaveWrite
    \/ Report
    \/ Crash
    \/ LoadFails

SpecIO == Init /\ [][NextIO]_vars

\* ---------------------------------------------------------------- practice
\* Deck.due_cards: the due cards in deck order, as positions in deck.cards
RECURSIVE due_from(_, _, _)
due_from(dk, day, i) ==
    IF i > Len(dk.cards) THEN <<>>
    ELSE (IF is_due(dk.cards[i], day) THEN <<i>> ELSE <<>>)
         \o due_from(dk, day, i + 1)

\* every card of the deck is taken, due or not
due_cards_all(dk, day) == [i \in 1..Len(dk.cards) |-> i]

due_cards(dk, day) == due_from(dk, day, 1)

Range(seq) == {seq[i] : i \in 1..Len(seq)}

\* random.shuffle(due): every order of the same elements
shuffle(seq) ==
    {p \in [1..Len(seq) -> Range(seq)] :
        \A i, j \in 1..Len(seq) : i # j => p[i] # p[j]}

\* f"{acc:.1f}" of acc = 100 * good / n, in tenths of a percent
acc10(good, n) ==
    LET x == 1000 * good
        f == x \div n
        r == 2 * (x % n)
    IN  IF r < n THEN f
        ELSE IF r > n THEN f + 1
        ELSE IF f % 2 = 0 THEN f ELSE f + 1

\* grades typed at the prompt: a blackout, the best failing grade, the
\* least passing grade and a perfect recall
GradeInputs == {0, 2, 3, 5}

\* cmd_practice up to the first prompt
PracticeStart ==
    LET loaded == load(disk)
        due    == due_cards(loaded, now)
    IN  /\ Started
        /\ deck' = loaded
        /\ deck0' = loaded
        /\ s_today' = now
        /\ graded' = <<>>
        /\ report' = None
        /\ correctish' = 0
        /\ total' = Len(due)
        /\ last' = [cmd |-> "practice", id |-> 0,
                    question |-> None, answer |-> None]
        /\ IF due = <<>>
           THEN /\ outcome' = "no cards due"
                /\ queue' = <<>>
                /\ UNCHANGED <<pc, task>>
           ELSE /\ outcome' = "none"
                /\ queue' \in shuffle(due)
                /\ pc' = "prompt"
                /\ task' = "practice"
        /\ UNCHANGED <<issued, reviews, regraded, sm2vars, statvars>>

\* the card that comes after the graded one is graded in its place
graded_pos_next(q) == IF Len(q) > 1 THEN q[2] ELSE q[1]

\* for c in due: the card at the prompt
graded_pos(q) == q[1]

\* a grade 0..5 at the prompt: lines 126-133 up to the call of deck.save
Grade ==
    \E g \in GradeInputs, up \in BOOLEAN :
        LET i  == graded_pos(queue)
            c  == deck.cards[i]
            c2 == sm2_schedule(c, g, s_today, up)
        IN  /\ pc = "prompt"
            /\ up => (g >= 3 /\ c.repetitions >= 2
                      /\ OnHalf(c.interval, new_ease(c.ease, g)))
            /\ InBounds(c2)
            /\ deck' = [deck EXCEPT !.cards[i] = c2]
            /\ correctish' = IF g >= 3 THEN correctish + 1 ELSE correctish
            /\ queue' = Tail(queue)
            /\ graded' = Append(graded, [pos |-> i, id |-> c.id, grade |-> g])
            /\ reviews' = reviews \cup {<<c.id, s_today>>}
            /\ regraded' = (regraded \/ <<c.id, s_today>> \in reviews)
            /\ outcome' = "none"
            /\ pc' = "open"
            /\ task' = "grade"
            /\ UNCHANGED <<disk, now, last, issued, torn, old_disk,
                           s_today, total, deck0, report, sm2vars, statvars>>

\* anything else than q or a digit 0..5 at the prompt
Reprompt ==
    /\ pc = "prompt"
    /\ outcome' = "enter a number"
    /\ UNCHANGED <<deck, disk, now, last, issued, iovars,
                   sessvars, sm2vars, statvars>>

\* q at the prompt: line 123, up to the call of deck.save
Quit ==
    /\ pc = "prompt"
    /\ outcome' = "none"
    /\ pc' = "open"
    /\ task' = "quit"
    /\ UNCHANGED <<deck, disk, now, last, issued, torn, old_disk,
                   sessvars, sm2vars, statvars>>

\* what the session prints about itself when it ends: lines 124 and 134-136
closing(why, good, n) ==
    IF why = "quit" THEN None
    ELSE Some([acc10 |-> acc10(good, n), reviewed |-> n])

\* after deck.save returned: "Saved. Bye!", the next card, or the closing
SessionStep ==
    /\ pc = "report"
    /\ task \in {"grade", "quit"}
    /\ IF task = "quit"
       THEN /\ outcome' = "bye"
            /\ report' = closing(task, correctish, total)
            /\ pc' = "idle"
       ELSE IF queue = <<>>
       THEN /\ outcome' = "session done"
            /\ report' = closing(task, correctish, total)
            /\ pc' = "idle"
       ELSE /\ pc' = "prompt"
            /\ UNCHANGED <<outcome, report>>
    /\ UNCHANGED <<deck, disk, now, last, issued, task, torn, old_disk,
                   queue, s_today, correctish, total, graded, deck0,
                   reviews, regraded, sm2vars, statvars>>

\* midnight passes
Tick ==
    /\ pc = "idle"
    /\ now < Day0 + MaxTicks
    /\ now' = now + 1
    /\ UNCHANGED <<deck, disk, outcome, last, issued, iovars,
                   sessvars, sm2vars, statvars>>

\* two cards added today
TwoNew == add(add(EmptyDeck, A, B, Day0), B, A, Day0)

\* a card due today after two reviews, a card reviewed yesterday and not
\* due before next week, and a card added today
Mixed ==
    LET d1 == add(ReviewedDeck, A, B, Day0 - 2)
        c2 == sm2_schedule(sm2_schedule(d1.cards[2], 3, Day0 - 2, FALSE),
                           4, Day0 - 1, FALSE)
        d2 == [d1 EXCEPT !.cards[2] = c2]
    IN  add(d2, B, B, Day0)

SessionDecks == {TwoNew, Mixed}

InitSession ==
    /\ \E d \in SessionDecks :
          /\ disk = save(d)
          /\ issued = CardIdsOf(d)
    /\ deck = load(disk)
    /\ RunIdle
    /\ now = Day0
    /\ outcome = "none"
    /\ last = NoCommand
    /\ card = Card(1, A, A, Day0)
    /\ quality = 0
    /\ today = Day0
    /\ half_up = FALSE
    /\ called = FALSE
    /\ before = card

NextSession ==
    \/ PracticeStart
    \/ Grade
    \/ Reprompt
    \/ Quit
    \/ SaveOpen
    \/ SaveWrite
    \/ SessionStep
    \/ Tick

SpecSession == InitSession /\ [][NextSession]_vars

NextCrash ==
    \/ PracticeStart
    \/ Grade
    \/ Reprompt
    \/ Quit
    \/ SaveOpen
    \/ SaveWrite
    \/ SessionStep
    \/ Tick
    \/ Crash
    \/ LoadFails

SpecCrash == InitSession /\ [][NextCrash]_vars

\* ------------------------------------------------------- scheduler claims
\* the increment of the ease for each quality 0..5, in hundredths
EaseStep == <<-80, -54, -32, -14, 0, 10>>

Nearest(n, x100) == 100 * n - x100 <= 50 /\ x100 - 100 * n <= 50

\* C1: whatever qualities sm2_schedule is called with, inside or outside
\* 0..5, the ease of the card is at least 1.3 in every reachable state.
C1_EaseFloor == card.ease >= 130

C1_Witness ==
    /\ called
    /\ quality < 0
    /\ before.ease < 210
    /\ card.ease = 130

\* C2: a quality below 3 resets repetitions to 0 and the interval to 1
\* whatever the card was, and the card is due the day after today.
C2_LapseResets ==
    (called /\ quality < 3) =>
        /\ card.repetitions = 0
        /\ card.interval = 1
        /\ strptime(card.due) = Some(today + 1)

C2_Witness ==
    /\ called
    /\ quality = 2
    /\ before.repetitions >= 3
    /\ before.interval > 6
    /\ card.repetitions = 0
    /\ card.interval = 1

\* C3: with a quality of 3 or more, a card with repetitions 0 gets interval 1
\* and repetitions 1, and a card with repetitions 1 gets interval 6 and
\* repetitions 2, whatever its ease and its interval were.
C3_FirstTwoSteps ==
    (called /\ quality >= 3) =>
        /\ before.repetitions = 0 => (card.interval = 1 /\ card.repetitions = 1)
        /\ before.repetitions = 1 => (card.interval = 6 /\ card.repetitions = 2)

C3_Witness ==
    /\ called
    /\ quality >= 3
    /\ before.repetitions = 1
    /\ before.interval = 20
    /\ before.ease = 130
    /\ card.interval = 6
    /\ card.repetitions = 2

\* C4: with a quality of 3 or more and repetitions of 2 or more, the new
\* interval is the old interval times the ease as updated by this grade,
\* rounded to a nearest whole day, and repetitions grows by one.
C4_GrowthUsesNewEase ==
    (called /\ quality >= 3 /\ before.repetitions >= 2) =>
        /\ card.ease = Max(130, before.ease + EaseStep[Min(5, quality) + 1])
        /\ Nearest(card.interval, before.interval * card.ease)
        /\ card.repetitions = before.repetitions + 1

C4_Witness ==
    /\ called
    /\ quality = 5
    /\ before.repetitions = 2
    /\ before.interval = 6
    /\ before.ease = 250
    /\ card.ease = 260
    /\ card.interval = 16
    /\ card.repetitions = 3

\* C5: after every call the due date is today plus the new interval in days
\* and last_review is today.
C5_DueIsTodayPlusInterval ==
    called =>
        /\ strptime(card.due) = Some(today + card.interval)
        /\ card.last_review # None
        /\ strptime(card.last_review[1]) = Some(today)

C5_Witness ==
    /\ called
    /\ today = ymd2ord(2024, 2, 27)
    /\ card.interval = 6
    /\ card.due = <<"2", "0", "2", "4", "-", "0", "3", "-", "0", "4">>
    /\ card.last_review = Some(<<"2", "0", "2", "4", "-", "0", "2", "-", "2", "7">>)

\* C6: a quality below 0 gives the card that quality 0 gives, and a quality
\* above 5 the card that quality 5 gives.
C6_QualityClamped ==
    called =>
        /\ quality < 0 => card = sm2_schedule(before, 0, today, half_up)
        /\ quality > 5 => card = sm2_schedule(before, 5, today, half_up)

C6_Witness ==
    /\ called
    /\ quality = 6
    /\ before.repetitions >= 2
    /\ card.ease = before.ease + 10
    /\ card.interval > before.interval

\* ------------------------------------------------------------- deck claims
NoDuplicates(seq) == \A i, j \in 1..Len(seq) : i # j => seq[i] # seq[j]

CardIds(dk) == [i \in 1..Len(dk.cards) |-> dk.cards[i].id]

\* C7: from an empty deck with next_id 1, under any adds and deletes,
\* next_id never decreases, the cards of the deck have pairwise distinct
\* ids, and every add gives the card the current next_id, an id no card
\* had before, deleted cards included.
C7_IdsNeverReused ==
    /\ [](/\ NoDuplicates(CardIds(deck))
          /\ NoDuplicates(issued)
          /\ \A i \in 1..Len(issued) : issued[i] < deck.next_id)
    /\ [][/\ deck'.next_id >= deck.next_id
          /\ last'.cmd = "add" =>
                /\ issued' = Append(issued, deck.next_id)
                /\ deck'.cards[Len(deck'.cards)].id = deck.next_id]_vars

C7_Witness ==
    /\ last.cmd = "add"
    /\ issued = <<1, 2>>
    /\ CardIds(deck) = <<2>>
    /\ deck.next_id = 3

\* C8: edit or delete with an id that no card has changes neither the deck
\* in memory (cards, order, next_id) nor the file, and reports not found.
C8_NotFoundIsNoOp ==
    [][(last'.cmd \in {"edit", "delete"} /\ last'.id \notin Ids(load(disk))) =>
            /\ deck' = load(disk)
            /\ disk' = disk
            /\ outcome' = "not found"]_vars

C8_Witness ==
    /\ last.cmd = "edit"
    /\ last.question = Some(A)
    /\ last.id \notin Ids(deck)
    /\ outcome = "not found"
    /\ Len(deck.cards) = 2
    /\ disk = save(deck)

\* what an optional argument makes of a text: itself when given and not
\* empty, the text as it was otherwise
Replaced(arg, old) == IF arg = None \/ arg = Some(<<>>) THEN old ELSE arg[1]

\* C9: edit of an existing card replaces question and answer only where a
\* non-empty value is given and leaves the card's other fields, the other
\* cards, the order and next_id as they were.
C9_EditFrame ==
    [][(last'.cmd = "edit" /\ last'.id \in Ids(load(disk))) =>
            LET old == load(disk)
            IN  /\ deck'.next_id = old.next_id
                /\ Len(deck'.cards) = Len(old.cards)
                /\ \A i \in 1..Len(old.cards) :
                      IF old.cards[i].id = last'.id
                      THEN deck'.cards[i] =
                             [old.cards[i] EXCEPT
                                !.question = Replaced(last'.question, @),
                                !.answer = Replaced(last'.answer, @)]
                      ELSE deck'.cards[i] = old.cards[i]]_vars

C9_Witness ==
    /\ last.cmd = "edit"
    /\ outcome = "edited"
    /\ last.id = 1
    /\ last.question = Some(<<" ">>)
    /\ last.answer = Some(<<>>)
    /\ Len(deck.cards) = 2
    /\ deck.cards[1].id = 1
    /\ deck.cards[1].question = <<" ">>
    /\ deck.cards[1].answer = <<"a", " ", "a">>
    /\ deck.cards[1].repetitions = 2
    /\ deck.cards[1].last_review # None

\* C10: in every reachable deck, whatever strings add and edit were given,
\* the question and the answer of every card are non-empty.
C10_TextsNonEmpty ==
    \A i \in 1..Len(deck.cards) :
        deck.cards[i].question # <<>> /\ deck.cards[i].answer # <<>>

\* ---------------------------------------------------------- storage claims
\* C14: when the process dies at any point of Deck.save, DECK_PATH holds the
\* whole deck it held before or the whole new deck, never an emptied or
\* partly written text.
C14_SaveAtomic ==
    (pc = "idle" /\ outcome = "crashed") =>
        /\ ~torn
        /\ disk = old_disk \/ disk = save(deck)

\* C15: add, edit of an existing card and delete of an existing card report
\* success only with the file holding the deck as it is in memory: the deck
\* is changed first, then written, then the success is printed, and a write
\* that did not complete prints no success.
C15_SuccessAfterSave ==
    /\ outcome \in {"added", "edited", "deleted"} =>
          /\ pc = "idle"
          /\ ~torn
          /\ disk = save(deck)
    /\ pc \in {"open", "write"} => outcome = "none"

C15_Witness ==
    /\ outcome = "deleted"
    /\ last.cmd = "delete"
    /\ issued = <<1, 2>>
    /\ Ids(deck) = {2}
    /\ disk = save(deck)
    /\ old_disk # disk

\* ------------------------------------------------------ due cards and stats
\* due texts a deck file can hold, each with what datetime.strptime makes of
\* it: the year, month and day, or None for ValueError
DueSamples ==
    {
      [due |-> <<"2", "0", "2", "4", "-", "0", "2", "-", "2", "7">>,
       parsed |-> Some(<<2024, 2, 27>>)],
      [due |-> <<"2", "0", "2", "4", "-", "0", "2", "-", "2", "8">>,
       parsed |-> Some(<<2024, 2, 28>>)],
      [due |-> <<"2", "0", "2", "4", "-", "0", "2", "-", "2", "9">>,
       parsed |-> Some(<<2024, 2, 29>>)],
      [due |-> <<"2", "0", "2", "4", "-", "3", "-", "1">>,
       parsed |-> Some(<<2024, 3, 1>>)],
      [due |-> <<"2", "0", "2", "4", "-", "0", "3", "-", "0", "6">>,
       parsed |-> Some(<<2024, 3, 6>>)],
      [due |-> <<"2", "0", "2", "4", "-", "0", "3", "-", "0", "7">>,
       parsed |-> Some(<<2024, 3, 7>>)],
      [due |-> <<"2", "0", "2", "4", "-", "0", "2", "-", " ", "5">>,
       parsed |-> Some(<<2024, 2, 5>>)],
      [due |-> <<>>,
       parsed |-> None],
      [due |-> <<"2", "0", "2", "3", "-", "0", "2", "-", "2", "9">>,
       parsed |-> None],
      [due |-> <<"2", "0", "2", "4", "-", "1", "3", "-", "0", "1">>,
       parsed |-> None],
      [due |-> <<"2", "0", "2", "4", "/", "0", "3", "/", "0", "1">>,
       parsed |-> None],
      [due |-> <<"2", "4", "-", "0", "3", "-", "0", "1">>,
       parsed |-> None]
    }

DueTexts == {r.due : r \in DueSamples}

\* a deck file of n cards whose due texts are given by f
FileWith(n, f) ==
    [exists |-> TRUE, next_id |-> n + 1,
     cards |-> [i \in 1..n |-> [Card(i, A, B, Day0) EXCEPT !.due = f[i]]]]

\* the window starts tomorrow
in_window_open(delta) == 0 < delta /\ delta <= 7

\* 0 <= delta <= 7
in_window(delta) == 0 <= delta /\ delta <= 7

\* the loop of lines 152-159 from card i on, b holding the counts so far
RECURSIVE fill_buckets(_, _, _, _)
fill_buckets(dk, day, i, b) ==
    IF i > Len(dk.cards) THEN b
    ELSE LET d == strptime(dk.cards[i].due)
         IN  IF d = None THEN fill_buckets(dk, day, i + 1, b)
             ELSE IF in_window(d[1] - day)
                  THEN fill_buckets(dk, day, i + 1,
                                    [b EXCEPT ![d[1] - day] = @ + 1])
                  ELSE fill_buckets(dk, day, i + 1, b)

ReportDays == (Day0 - 2)..(Day0 + 2)

\* deck.due_cards(day) on the loaded deck
DueCall ==
    \E day \in ReportDays :
        /\ pc = "idle"
        /\ deck' = load(disk)
        /\ due_out' = due_cards(deck', day)
        /\ s_today' = day
        /\ old_disk' = disk
        /\ last' = [NoCommand EXCEPT !.cmd = "due"]
        /\ outcome' = "due"
        /\ report' = None
        /\ buckets' = NoBuckets
        /\ UNCHANGED <<disk, now, issued, pc, task, torn, queue, correctish,
                       total, graded, deck0, reviews, regraded, sm2vars>>

\* the stats command: the counts of lines 140-142 and the histogram
cmd_stats ==
    /\ pc = "idle"
    /\ deck' = load(disk)
    /\ s_today' = now
    /\ old_disk' = disk
    /\ report' = Some([total |-> Len(deck'.cards),
                       due |-> Cardinality({i \in 1..Len(deck'.cards) :
                                              is_due(deck'.cards[i], now)}),
                       learned |-> Cardinality({i \in 1..Len(deck'.cards) :
                                              deck'.cards[i].repetitions >= 2})])
    /\ buckets' = fill_buckets(deck', now, 1, NoBuckets)
    /\ last' = [NoCommand EXCEPT !.cmd = "stats"]
    /\ outcome' = "stats"
    /\ due_out' = <<>>
    /\ UNCHANGED <<disk, now, issued, pc, task, torn, queue, correctish,
                   total, graded, deck0, reviews, regraded, sm2vars>>

InitReport ==
    /\ \E n \in 0..MaxCards : \E f \in [1..n -> DueTexts] :
          disk = FileWith(n, f)
    /\ deck = load(disk)
    /\ issued = CardIdsOf(deck)
    /\ RunIdle
    /\ now = Day0
    /\ outcome = "none"
    /\ last = NoCommand
    /\ card = Card(1, A, A, Day0)
    /\ quality = 0
    /\ today = Day0
    /\ half_up = FALSE
    /\ called = FALSE
    /\ before = card

NextReport ==
    \/ DueCall
    \/ cmd_stats
    \/ Tick

SpecReport == InitReport /\ [][NextReport]_vars

\* ------------------------------------------------- scheduler from a new card
InitFresh ==
    /\ card = Card(1, A, B, Day0)
    /\ quality = 0
    /\ today = Day0
    /\ half_up = FALSE
    /\ called = FALSE
    /\ before = card
    /\ DeckIdle

SpecFresh == InitFresh /\ [][NextSM2]_vars

\* ---------------------------------------------------------- session claims
\* the positions of the cards that were due when the session started
DueAtStart ==
    {i \in 1..Len(deck0.cards) : is_due(deck0.cards[i], s_today)}

GradedPos == [k \in 1..Len(graded) |-> graded[k].pos]

InSession == last.cmd = "practice"

\* C11: a session presents only cards that were due when it started, each
\* at most once whatever the shuffle, and a session that is not left early
\* grades every one of them exactly once.
C11_EachDueCardOnce ==
    InSession =>
        /\ Range(GradedPos) \subseteq DueAtStart
        /\ Range(queue) \subseteq DueAtStart
        /\ NoDuplicates(GradedPos \o queue)
        /\ outcome = "session done" =>
              /\ Range(GradedPos) = DueAtStart
              /\ Len(graded) = Cardinality(DueAtStart)

C11_Witness ==
    /\ outcome = "session done"
    /\ Len(deck.cards) = 3
    /\ Len(graded) = 2
    /\ graded[1].pos > graded[2].pos

\* C12: q at a grade prompt ends the session without another grade: every
\* due card not graded yet keeps its fields and is still due today, and
\* every grade given before is in the file.
C12_EarlyExit ==
    (InSession /\ outcome = "bye") =>
        /\ pc = "idle"
        /\ Len(graded) + Len(queue) = total
        /\ \A i \in Range(queue) :
              /\ deck.cards[i] = deck0.cards[i]
              /\ disk.cards[i] = deck0.cards[i]
              /\ is_due(disk.cards[i], s_today)
        /\ \A k \in 1..Len(graded) :
              /\ disk.cards[graded[k].pos] = deck.cards[graded[k].pos]
              /\ disk.cards[graded[k].pos] # deck0.cards[graded[k].pos]
              /\ disk.cards[graded[k].pos].last_review = Some(strftime(s_today))

C12_Witness ==
    /\ InSession
    /\ outcome = "bye"
    /\ Len(graded) = 1
    /\ Len(queue) = 1
    /\ graded[1].grade = 0

\* C13: the deck is saved after each grade and before the next card is
\* presented, so a session interrupted after the grade of card N has the
\* updated cards 1..N in the file.  N counts the grades whose save was over
\* when the session was interrupted: all of them when it died in the save
\* of q, all but the last one at least when it died after a grade.
C13_GradesSurviveInterruption ==
    /\ (InSession /\ pc = "prompt") => (~torn /\ disk = save(deck))
    /\ (InSession /\ outcome = "crashed") =>
          \A k \in 1..(IF task = "grade" THEN Len(graded) - 1 ELSE Len(graded)) :
              /\ ~torn
              /\ disk.cards[graded[k].pos] = deck.cards[graded[k].pos]

\* C16: every session that graded a card, left early or not, ends with
\* accuracy = 100 * (grades >= 3) / (cards graded) and reviewed = cards graded.
C16_Accounting ==
    (InSession /\ outcome \in {"bye", "session done"} /\ Len(graded) >= 1) =>
        /\ report # None
        /\ report[1].reviewed = Len(graded)
        /\ LET good == Cardinality({k \in 1..Len(graded) : graded[k].grade >= 3})
               n    == Len(graded)
           IN  /\ 2 * (n * report[1].acc10 - 1000 * good) <= n
               /\ 2 * (1000 * good - n * report[1].acc10) <= n

\* C19: a card graded on day T has an interval of at least 1 and is not due
\* on T any more, so the sessions started on one day grade a card at most
\* once.
C19_OncePerDay ==
    /\ InSession =>
          \A k \in 1..Len(graded) :
              /\ deck.cards[graded[k].pos].interval >= 1
              /\ ~is_due(deck.cards[graded[k].pos], s_today)
    /\ ~regraded

C19_Witness ==
    /\ InSession
    /\ outcome = "no cards due"
    /\ s_today = Day0
    /\ Cardinality(reviews) = 2
    /\ \A r \in reviews : r[2] = Day0
    /\ \E i \in 1..Len(deck.cards) : deck.cards[i].interval = 1

\* ------------------------------------------------------------ report claims
\* what strptime makes of a sampled due text, as a day number or None
Parsed(text) ==
    LET r == CHOOSE x \in DueSamples : x.due = text
    IN  IF r.parsed = None THEN None
        ELSE Some(ymd2ord(r.parsed[1][1], r.parsed[1][2], r.parsed[1][3]))

\* C17: is_due(today) is true exactly when the due text parses as a date not
\* after today or does not parse at all, so a card with an unparsable due
\* text is among the due cards whatever today is.
C17_DueOrUnparsable ==
    /\ \A i \in 1..Len(deck.cards) : \A day \in ReportDays :
          is_due(deck.cards[i], day) <=>
              \/ Parsed(deck.cards[i].due) = None
              \/ /\ Parsed(deck.cards[i].due) # None
                 /\ Parsed(deck.cards[i].due)[1] <= day
    /\ last.cmd = "due" =>
          \A i \in 1..Len(deck.cards) :
              (i \in Range(due_out)) <=>
                  \/ Parsed(deck.cards[i].due) = None
                  \/ /\ Parsed(deck.cards[i].due) # None
                     /\ Parsed(deck.cards[i].due)[1] <= s_today

C17_Witness ==
    /\ last.cmd = "due"
    /\ s_today = Day0 - 1
    /\ Len(deck.cards) = 2
    /\ Parsed(deck.cards[1].due) = Some(Day0)
    /\ Parsed(deck.cards[2].due) = None
    /\ due_out = <<2>>

\* C18: bucket k of the stats histogram, k in 0..7, counts the cards whose
\* due text parses and equals today + k; unparsable, overdue and later cards
\* are in no bucket, no card is in two, and stats changes no card and does
\* not write the file.
C18_Histogram ==
    last.cmd = "stats" =>
        /\ \A k \in 0..7 :
              buckets[k] = Cardinality({i \in 1..Len(deck.cards) :
                               /\ Parsed(deck.cards[i].due) # None
                               /\ Parsed(deck.cards[i].due)[1] = s_today + k})
        /\ \A i \in 1..Len(deck.cards) :
              Cardinality({k \in 0..7 :
                  /\ Parsed(deck.cards[i].due) # None
                  /\ Parsed(deck.cards[i].due)[1] = s_today + k}) <= 1
        /\ disk = old_disk
        /\ deck.cards = disk.cards

C18_Witness ==
    /\ last.cmd = "stats"
    /\ s_today = Day0 + 1
    /\ Len(deck.cards) = 2
    /\ buckets[0] = 0
    /\ buckets[7] = 1
    /\ \E i \in 1..2 : Parsed(deck.cards[i].due) = None

\* C20: on every card reached from a new card by grades, repetitions >= 2
\* comes with an interval of at least 6, and a successful grade of such a
\* card makes the interval strictly longer.
C20_MatureIntervals ==
    /\ card.repetitions >= 2 => card.interval >= 6
    /\ (called /\ before.repetitions >= 2 /\ clamp(quality) >= 3) =>
          card.interval > before.interval

C20_Witness ==
    /\ called
    /\ quality = 3
    /\ before.repetitions = 2
    /\ before.ease = MIN_EASE
    /\ before.interval = 6
    /\ card.interval = 8

====
